---------------------------- MODULE Spec2Model ----------------------------
(***************************************************************************)
(* A model of the goldie-seeking strategy trees: the GusherNode heap with  *)
(* add_children / update_costs / calc_tree_score / validate                *)
(* (src/GusherNode.py), the tree notation write_tree / read_tree, and the  *)
(* tree builders getstratgreedy / getstratnarrow (src/getstrats.py).       *)
(*                                                                         *)
(* Python objects live in the heap `nodes`: a sequence of records, a       *)
(* reference being an index into it and None being 0.  Strings are         *)
(* sequences of one-character strings.                                     *)
(***************************************************************************)
EXTENDS Integers, Sequences, FiniteSets, TLC

VARIABLES nodes,     \* the heap of GusherNode objects, in allocation order
          last,      \* the last call made and how it ended
          tree_str,  \* the text handed to read_tree / produced by write_tree
          G,         \* the gusher graph handed to the tree builders
          strats     \* the trees the builders returned, and the objective recorded

vars == <<nodes, last, tree_str, G, strats>>

\* ------------------------------------------------------------ bounds
MaxNodes == 3        \* GusherNode objects the heap operations may create
MaxLen == 5          \* characters of a text handed to read_tree as it is
MaxVertices == 4     \* vertices of a gusher graph handed to the builders
MaxTotalLatency == 6 \* total_latency of a node on which report is still called

\* --------------------------------------------------------- constants
None == 0
NEVER_FIND_FLAG == "*"
BASKET_LABEL == <<"@">>

Locations == {<<"a">>, <<"b">>}
Distances == {1, 2}

\* ------------------------------------------------------- the GusherMap
\* A gusher map is 0 (no map) or 1 (the map below).  The map gives b a
\* weight of 2, and pairwise different distances between @, a and b.
GusherMaps == {None, 1}

\* getstratnarrow hands the graph G itself to GusherNode as its gusher_map:
\* a networkx graph, which is true when it has a vertex and has neither
\* weight() nor distance().
GraphMap == 2

HasWeight(gusher_map) == gusher_map # GraphMap

weight(gusher_map, name) == IF name = <<"b">> THEN 2 ELSE 1

distance(gusher_map, u, v) ==
    IF u = v THEN 0
    ELSE IF {u, v} = {BASKET_LABEL, <<"a">>} THEN 1
    ELSE IF {u, v} = {BASKET_LABEL, <<"b">>} THEN 2
    ELSE 3

\* ------------------------------------------------------------ GusherNode
GusherNode(name, gusher_map, findable) ==
    [name |-> name, low |-> None, high |-> None, parent |-> None,
     findable |-> findable,
     size |-> IF findable THEN 1 ELSE 0,
     distance |-> 1, latency |-> 0, total_latency |-> 0,
     weight |-> IF gusher_map # None THEN weight(gusher_map, name) ELSE 1,
     risk |-> 0, total_risk |-> 0]

\* __str__: the name, followed by the flag when the node is not findable
Str(H, n) == H[n].name \o (IF ~H[n].findable THEN <<NEVER_FIND_FLAG>> ELSE <<>>)

\* __iter__: the node, then its high subtree, then its low subtree
RECURSIVE Iter(_, _)
Iter(H, n) ==
    <<n>> \o (IF H[n].high # None THEN Iter(H, H[n].high) ELSE <<>>)
          \o (IF H[n].low # None THEN Iter(H, H[n].low) ELSE <<>>)

findable_nodes(H, n) == SelectSeq(Iter(H, n), LAMBDA m : H[m].findable)

\* __eq__: None is never equal; two nodes are equal when name, weight and
\* findable agree (not when they are the same object)
NodeEq(H, a, b) ==
    IF a = None \/ b = None THEN FALSE
    ELSE /\ H[a].name = H[b].name
         /\ H[a].weight = H[b].weight
         /\ H[a].findable = H[b].findable

\* ---------------------------------------------------------- add_children
\* The two asserts guarding a side: the slot is empty, the child has no parent.
HighSlotFree(H, self) == H[self].high = None

LowSlotFree(H, self) == H[self].low = None

ParentlessAlways(H, child) == TRUE
Parentless(H, child) == H[child].parent = None

\* One side of add_children: [H: the heap after it, ok: no assert failed,
\* size, totlat, totrisk: the child's aggregates as read after attaching]
AttachHigh(H, self, high, dist_h) ==
    IF high = None
    THEN [H |-> H, ok |-> TRUE, size |-> 0, totlat |-> 0, totrisk |-> 0]
    ELSE IF ~HighSlotFree(H, self) \/ ~Parentless(H, high)
    THEN [H |-> H, ok |-> FALSE, size |-> 0, totlat |-> 0, totrisk |-> 0]
    ELSE LET H1 == [H EXCEPT ![self].high = high]
             H2 == [H1 EXCEPT ![H1[self].high].parent = self]
             H3 == [H2 EXCEPT ![H2[self].high].distance = dist_h]
         IN [H |-> H3, ok |-> TRUE,
             size |-> H3[H3[self].high].size,
             totlat |-> H3[H3[self].high].total_latency,
             totrisk |-> H3[H3[self].high].total_risk]

AttachLow(H, self, low, dist_l) ==
    IF low = None
    THEN [H |-> H, ok |-> TRUE, size |-> 0, totlat |-> 0, totrisk |-> 0]
    ELSE IF ~LowSlotFree(H, self) \/ ~Parentless(H, low)
    THEN [H |-> H, ok |-> FALSE, size |-> 0, totlat |-> 0, totrisk |-> 0]
    ELSE LET H1 == [H EXCEPT ![self].low = low]
             H2 == [H1 EXCEPT ![H1[self].low].parent = self]
             H3 == [H2 EXCEPT ![H2[self].low].distance = dist_l]
         IN [H |-> H3, ok |-> TRUE,
             size |-> H3[H3[self].low].size,
             totlat |-> H3[H3[self].low].total_latency,
             totrisk |-> H3[H3[self].low].total_risk]

\* The bottom-up aggregates add_children stores on the node itself
AggregateRisk(w, totrisk_l, totrisk_h, total_latency) ==
    totrisk_l + totrisk_h + w * total_latency

Aggregate(H, self, h, l, dist_h, dist_l) ==
    LET H1 == [H EXCEPT ![self].size =
                   l.size + h.size + (IF H[self].findable THEN 1 ELSE 0)]
        H2 == [H1 EXCEPT ![self].total_latency =
                   l.totlat + dist_l * l.size + h.totlat + dist_h * h.size]
    IN [H2 EXCEPT ![self].total_risk =
            AggregateRisk(H2[self].weight, l.totrisk, h.totrisk,
                          H2[self].total_latency)]

\* add_children: [H: the heap the call leaves, ok: FALSE when an assert failed]
add_children(H, self, high, low, dist_h, dist_l) ==
    LET h == AttachHigh(H, self, high, dist_h) IN
    IF ~h.ok THEN [H |-> h.H, ok |-> FALSE]
    ELSE LET l == AttachLow(h.H, self, low, dist_l) IN
         IF ~l.ok THEN [H |-> l.H, ok |-> FALSE]
         ELSE [H |-> Aggregate(l.H, self, h, l, dist_h, dist_l), ok |-> TRUE]

\* ---------------------------------------------------------- update_costs
RECURSIVE update_costs_recurse(_, _, _, _, _, _)
update_costs_recurse(H, node, parent_latency, total_predecessor_weight, gusher_map, start) ==
    LET H1 ==
          IF H[node].parent # None
          THEN LET Hd == IF gusher_map # None
                         THEN [H EXCEPT ![node].distance =
                                 distance(gusher_map, H[H[node].parent].name,
                                          H[node].name)]
                         ELSE H
                   Hl == [Hd EXCEPT ![node].latency =
                                 parent_latency + Hd[node].distance]
               IN [Hl EXCEPT ![node].risk =
                       Hl[Hl[node].parent].risk
                       + total_predecessor_weight * Hl[node].distance]
          ELSE LET Hl == IF gusher_map # None
                         THEN LET Ha == [H EXCEPT ![node].latency =
                                           distance(gusher_map, start, H[node].name)]
                              IN [Ha EXCEPT ![node].total_latency =
                                     Ha[node].total_latency
                                     + Ha[node].latency * Ha[node].size]
                         ELSE [H EXCEPT ![node].latency = 0]
               IN [Hl EXCEPT ![node].risk = 0]
        H2 == IF H1[node].high # None
              THEN update_costs_recurse(H1, H1[node].high, H1[node].latency,
                       total_predecessor_weight + H1[node].weight,
                       gusher_map, start)
              ELSE H1
        H3 == IF H2[node].low # None
              THEN update_costs_recurse(H2, H2[node].low, H2[node].latency,
                       total_predecessor_weight + H2[node].weight,
                       gusher_map, start)
              ELSE H2
    IN H3

update_costs(H, self, gusher_map, start) ==
    update_costs_recurse(H, self, 0, 0, gusher_map, start)

\* ------------------------------------------------------- calc_tree_score
RECURSIVE SumLatency(_, _)
SumLatency(H, s) ==
    IF s = <<>> THEN 0 ELSE H[Head(s)].latency + SumLatency(H, Tail(s))

RECURSIVE SumRisk(_, _)
SumRisk(H, s) ==
    IF s = <<>> THEN 0 ELSE H[Head(s)].risk + SumRisk(H, Tail(s))

calc_tree_score(H, self, gusher_map, start) ==
    LET H1 == update_costs(H, self, gusher_map, start)
        fn == findable_nodes(H1, self)
    IN [H1 EXCEPT ![self].total_latency = SumLatency(H1, fn),
                  ![self].total_risk = SumRisk(H1, fn)]

\* ------------------------------------------------------------------ report
\* report(gusher_map): update_costs(gusher_map) with the default start, then
\* the text, whose averages are over the findable nodes: mean() raises
\* StatisticsError when there is none.  The heap keeps what update_costs
\* wrote either way.
report(H, self, gusher_map) ==
    LET H1 == update_costs(H, self, gusher_map, BASKET_LABEL)
    IN [H |-> H1,
        result |-> IF findable_nodes(H1, self) = <<>>
                   THEN "StatisticsError" ELSE "ok"]

\* --------------------------------------------------------------- validate
\* "ok", or the assert that failed: "repeat" (the node's str is among its
\* predecessors'), "parent" (a child's parent is not == the node), "leaf"
\* (a childless node is not findable)
RECURSIVE validate_recurse(_, _, _)
validate_recurse(H, node, predecessors) ==
    IF Str(H, node) \in predecessors THEN "repeat"
    ELSE IF H[node].high # None \/ H[node].low # None
    THEN LET pred_new == predecessors \cup {Str(H, node)}
             rh == IF H[node].high = None THEN "ok"
                   ELSE IF ~NodeEq(H, H[H[node].high].parent, node) THEN "parent"
                   ELSE validate_recurse(H, H[node].high, pred_new)
         IN IF rh # "ok" THEN rh
            ELSE IF H[node].low = None THEN "ok"
            ELSE IF ~NodeEq(H, H[H[node].low].parent, node) THEN "parent"
            ELSE validate_recurse(H, H[node].low, pred_new)
    ELSE IF ~H[node].findable THEN "leaf"
    ELSE "ok"

validate(H, self) == validate_recurse(H, self, {})


\* ------------------------------------------------------------ write_tree
RECURSIVE write_tree(_, _)
write_tree(H, root) ==
    IF H[root].high # None /\ H[root].low # None
    THEN Str(H, root) \o <<"(">> \o write_tree(H, H[root].high) \o <<",", " ">>
             \o write_tree(H, H[root].low) \o <<")">>
    ELSE IF H[root].high # None
    THEN Str(H, root) \o <<"(">> \o write_tree(H, H[root].high) \o <<",", ")">>
    ELSE IF H[root].low # None
    THEN Str(H, root) \o <<"(", ",">> \o write_tree(H, H[root].low) \o <<")">>
    ELSE Str(H, root)

\* ----------------------------------------------------- the tree grammar
\* The characters of the model's texts: \w matches the word characters;
\* pyparsing skips the white space in front of every token.
WordChars == {"a", "b", "c", "d", "e"}
White == {" "}

RECURSIVE SkipWhite(_, _)
SkipWhite(s, loc) ==
    IF loc <= Len(s) /\ s[loc] \in White THEN SkipWhite(s, loc + 1) ELSE loc

\* the end of the longest run of word characters starting at loc
RECURSIVE WordEnd(_, _)
WordEnd(s, loc) ==
    IF loc <= Len(s) /\ s[loc] \in WordChars THEN WordEnd(s, loc + 1) ELSE loc

Fail == [ok |-> FALSE, loc |-> 0, toks |-> <<>>]

\* node = Regex(r'\w+[*]?')
ParseNode(s, loc) ==
    LET b == SkipWhite(s, loc)
        e == WordEnd(s, b)
        f == IF e <= Len(s) /\ s[e] = NEVER_FIND_FLAG THEN e + 1 ELSE e
    IN IF e = b THEN Fail
       ELSE [ok |-> TRUE, loc |-> f, toks |-> SubSeq(s, b, f - 1)]

\* LPAREN, COMMA, RPAREN = map(Suppress, '(,)')
ParseLiteral(s, loc, ch) ==
    LET b == SkipWhite(s, loc)
    IN IF b <= Len(s) /\ s[b] = ch
       THEN [ok |-> TRUE, loc |-> b + 1, toks |-> <<>>]
       ELSE Fail

\* tree << node('root') + Optional(subtrees), with
\* subtrees = LPAREN + subtree('high') + COMMA + subtree('low') + RPAREN and
\* subtree = Group(Optional(tree)).  The tokens of a tree are
\* [root, high, low], a group being <<>> or <<the tokens of the subtree>>.
RECURSIVE ParseTree(_, _)
ParseSubtree(s, loc) ==
    LET t == ParseTree(s, loc)
    IN IF t.ok THEN [ok |-> TRUE, loc |-> t.loc, toks |-> <<t.toks>>]
       ELSE [ok |-> TRUE, loc |-> loc, toks |-> <<>>]

ParseSubtrees(s, loc) ==
    LET lp == ParseLiteral(s, loc, "(") IN
    IF ~lp.ok THEN Fail ELSE
    LET hi == ParseSubtree(s, lp.loc)
        cm == ParseLiteral(s, hi.loc, ",") IN
    IF ~cm.ok THEN Fail ELSE
    LET lo == ParseSubtree(s, cm.loc)
        rp == ParseLiteral(s, lo.loc, ")") IN
    IF ~rp.ok THEN Fail
    ELSE [ok |-> TRUE, loc |-> rp.loc, toks |-> [high |-> hi.toks, low |-> lo.toks]]

ParseTree(s, loc) ==
    LET n == ParseNode(s, loc) IN
    IF ~n.ok THEN Fail ELSE
    LET st == ParseSubtrees(s, n.loc) IN
    IF st.ok
    THEN [ok |-> TRUE, loc |-> st.loc,
          toks |-> [root |-> n.toks, high |-> st.toks.high, low |-> st.toks.low]]
    ELSE [ok |-> TRUE, loc |-> n.loc,
          toks |-> [root |-> n.toks, high |-> <<>>, low |-> <<>>]]

\* tree.parseString(tree_str): the match starts at the first character and
\* need not reach the last one
parseString(s) == ParseTree(s, 1)

\* ------------------------------------------------------------- read_tree
\* str.rstrip(NEVER_FIND_FLAG)
RECURSIVE rstrip(_, _)
rstrip(s, ch) ==
    IF s # <<>> /\ s[Len(s)] = ch THEN rstrip(SubSeq(s, 1, Len(s) - 1), ch) ELSE s

\* findable = tokens.root[-1] is not NEVER_FIND_FLAG (one-character strings
\* are unique objects in CPython, so `is not` decides as != does)
FindableAlways(root) == TRUE
Findable(root) == root[Len(root)] # NEVER_FIND_FLAG

\* build_tree(tokens): [H: the heap with the new nodes, root: the new tree]
RECURSIVE build_tree(_, _, _)
build_tree(H, tokens, gusher_map) ==
    LET rootname == rstrip(tokens.root, NEVER_FIND_FLAG)
        H1 == Append(H, GusherNode(rootname, gusher_map, Findable(tokens.root)))
        root == Len(H1)
    IN IF tokens.high # <<>> \/ tokens.low # <<>>
       THEN LET h == IF tokens.high # <<>>
                     THEN build_tree(H1, tokens.high[1], gusher_map)
                     ELSE [H |-> H1, root |-> None]
                dist_h == IF tokens.high # <<>> /\ gusher_map # None
                          THEN distance(gusher_map, rootname, h.H[h.root].name)
                          ELSE 1
                l == IF tokens.low # <<>>
                     THEN build_tree(h.H, tokens.low[1], gusher_map)
                     ELSE [H |-> h.H, root |-> None]
                dist_l == IF tokens.low # <<>> /\ gusher_map # None
                          THEN distance(gusher_map, rootname, l.H[l.root].name)
                          ELSE 1
            IN [H |-> add_children(l.H, root, h.root, l.root, dist_h, dist_l).H,
                root |-> root]
       ELSE [H |-> H1, root |-> root]

\* read_tree(tree_str, gusher_map, start): [ok: FALSE for a ParseException,
\* H: the heap after the call, root: the tree returned]
read_tree(H, s, gusher_map, start) ==
    LET p == parseString(s) IN
    IF ~p.ok THEN [ok |-> FALSE, H |-> H, root |-> None]
    ELSE LET b == build_tree(H, p.toks, gusher_map)
         IN [ok |-> TRUE,
             H |-> calc_tree_score(b.H, b.root, gusher_map, start),
             root |-> b.root]

\* ---------------------------------------------------------- is_same_tree
RECURSIVE is_same_tree(_, _, _)
is_same_tree(H, self, other) ==
    IF other = None THEN FALSE
    ELSE IF ~NodeEq(H, self, other) THEN FALSE
    ELSE LET same_high == IF H[self].high # None
                          THEN is_same_tree(H, H[self].high, H[other].high)
                          ELSE H[other].high = None
             same_low == IF H[self].low # None
                         THEN is_same_tree(H, H[self].low, H[other].low)
                         ELSE H[other].low = None
         IN same_high /\ same_low

\* ---------------------------------------------------------- __deepcopy__
\* tree_copy = GusherNode(self.name, findable=self.findable); a node
\* without a parent also hands over its cost attributes
CopyNode(H, self) ==
    IF H[self].parent = None
    THEN [GusherNode(H[self].name, None, H[self].findable) EXCEPT
             !.size = H[self].size, !.distance = H[self].distance,
             !.latency = H[self].latency,
             !.total_latency = H[self].total_latency,
             !.weight = H[self].weight, !.risk = H[self].risk,
             !.total_risk = H[self].total_risk]
    ELSE GusherNode(H[self].name, None, H[self].findable)

\* tree_copy.high = deepcopy(self.high); tree_copy.high.parent = tree_copy
LinkHigh(tree_copy, c) ==
    IF c.root = None THEN c.H
    ELSE [c.H EXCEPT ![tree_copy].high = c.root, ![c.root].parent = tree_copy]

\* tree_copy.low = deepcopy(self.low); tree_copy.low.parent = tree_copy
LinkLow(tree_copy, c) ==
    IF c.root = None THEN c.H
    ELSE [c.H EXCEPT ![tree_copy].low = c.root, ![c.root].parent = tree_copy]

\* [H: the heap with the copy in it, root: the copy]
RECURSIVE deepcopy(_, _)
deepcopy(H, self) ==
    LET tree_copy == Len(H) + 1
        H0 == Append(H, CopyNode(H, self))
        H1 == LinkHigh(tree_copy,
                       IF H[self].high # None THEN deepcopy(H0, H[self].high)
                       ELSE [H |-> H0, root |-> None])
    IN [H |-> LinkLow(tree_copy,
                      IF H[self].low # None THEN deepcopy(H1, H[self].low)
                      ELSE [H |-> H1, root |-> None]),
        root |-> tree_copy]

\* ------------------------------------------------------------ splitgraph
\* A subgraph is the sequence of its vertices in the graph's iteration
\* order; its edges and penalties are those of G.
Adjacent(u, v) == {u, v} \in G.E

splitgraph(O, V) ==
    [A |-> SelectSeq(O, LAMBDA v : Adjacent(V, v)),
     B |-> SelectSeq(O, LAMBDA v : v # V /\ ~Adjacent(V, v))]

\* G.degree[g] in the subgraph O
Degree(O, g) == Len(SelectSeq(O, LAMBDA v : Adjacent(g, v)))

Abs(x) == IF x < 0 THEN -x ELSE x

\* min(..., key=...): the index of the first entry with the least key
FirstMin(keys) ==
    CHOOSE i \in 1..Len(keys) :
        /\ \A j \in 1..Len(keys) : keys[i] <= keys[j]
        /\ \A j \in 1..(i - 1) : keys[j] > keys[i]

\* ------------------------------------------- the builders' GusherNode calls
\* What a call gives back: the heap after it, the object returned (None
\* when it raised), the objective on it, and "ok" or the exception raised.
Return(H, root, obj) == [H |-> H, root |-> root, obj |-> obj, result |-> "ok"]
Raise(H, exception) == [H |-> H, root |-> None, obj |-> 0, result |-> exception]

\* the parameters of GusherNode.__init__
InitParameters == {"name", "gusher_map", "findable"}

\* the methods of GusherNode
Methods ==
    {"add_children", "findable_nodes", "update_costs", "calc_tree_score",
     "validate", "report", "is_same_tree"}

\* GusherNode(name, <keyword>=gusher_map): TypeError for a keyword that
\* __init__ does not have, AttributeError when __init__ asks the map for
\* weight(name) and the map has none; no object is created then
NewGusherNode(H, name, keyword, gusher_map) ==
    IF keyword \notin InitParameters THEN Raise(H, "TypeError")
    ELSE IF gusher_map # None /\ ~HasWeight(gusher_map)
    THEN Raise(H, "AttributeError")
    ELSE Return(Append(H, GusherNode(name, gusher_map, TRUE)), Len(H) + 1, 0)

\* root.addchildren(...), root.updatecost() on what a call gave back:
\* AttributeError, as GusherNode has no such method and None has none
CallMethod(made, method) ==
    IF made.result # "ok" THEN made
    ELSE IF made.root = None \/ method \notin Methods
    THEN Raise(made.H, "AttributeError")
    ELSE made

\* -------------------------------------------------------- getstratgreedy
\* Choose vertex V w/ lowest penalty and degree closest to n/2
GreedyVertex(O) ==
    LET minpenalty == CHOOSE p \in {G.penalty[O[i]] : i \in 1..Len(O)} :
                          \A i \in 1..Len(O) : p <= G.penalty[O[i]]
        Vcand == SelectSeq(O, LAMBDA g : G.penalty[g] = minpenalty)
    IN Vcand[FirstMin([i \in 1..Len(Vcand) |->
                         Abs(2 * Degree(O, Vcand[i]) - Len(O))])]

RECURSIVE getstratgreedy(_, _)
getstratgreedy(H, O) ==
    IF Len(O) = 0 THEN Return(H, None, 0)
    ELSE IF Len(O) = 1 THEN NewGusherNode(H, O[1], "graph", GraphMap)
    ELSE LET sp == splitgraph(O, GreedyVertex(O))
             high == getstratgreedy(H, sp.A)
         IN IF high.result # "ok" THEN high
            ELSE LET low == getstratgreedy(high.H, sp.B)
                 IN IF low.result # "ok" THEN low
                    ELSE CallMethod(NewGusherNode(low.H, GreedyVertex(O),
                                                  "graph", GraphMap),
                                    "addchildren")

\* -------------------------------------------------------- getstratnarrow
\* makenode(name) = GusherNode(name, G)
makenode(H, name) == NewGusherNode(H, name, "gusher_map", GraphMap)

\* the V that minimizes the objective score
ChooseBest(Vcand) == FirstMin([i \in 1..Len(Vcand) |-> Vcand[i].score])

\* the objective score of the tree with root V over a subgraph of n vertices
objective(n, pV, objH, objL) == (n - 1) * pV + objH + objL

\* objH = high.obj if high else 0
ObjOf(t) == IF t.root # None THEN t.obj ELSE 0

\* the state of the loop over V: the heap, Vcand, and "ok" or the exception
\* that ended it
LoopRaised(r) == [H |-> r.H, Vcand |-> <<>>, result |-> r.result]

\* Vcand[V] = ((n - 1) * pV + objH + objL, high, low)
AddCandidate(before, n, V, high, low) ==
    [H |-> low.H, result |-> "ok",
     Vcand |-> Append(before.Vcand,
                 [V |-> V,
                  score |-> objective(n, G.penalty[V], ObjOf(high), ObjOf(low)),
                  high |-> high.root, low |-> low.root])]

\* V = min(Vcand, ...); root = makenode(V); root.addchildren(high, low)
ChooseRoot(c) ==
    IF c.result # "ok" THEN Raise(c.H, c.result)
    ELSE CallMethod(makenode(c.H, c.Vcand[ChooseBest(c.Vcand)].V), "addchildren")

\* getstratrecurse(O, subgraphs).  Nothing is ever written to the dict
\* subgraphs: root.addchildren, which comes before the write, raises.  The
\* name readtree is bound to nothing, as GusherNode.py defines read_tree.
RECURSIVE getstratrecurse(_, _, _)
getstratrecurse(H, O, subgraphs) ==
    IF O \in DOMAIN subgraphs THEN Raise(H, "NameError")
    ELSE IF Len(O) = 0 THEN Return(H, None, 0)
    ELSE IF Len(O) = 1 THEN makenode(H, O[1])
    ELSE LET \* for V in O: the state after the first i vertices
             Loop[i \in 0..Len(O)] ==
                 IF i = 0 THEN [H |-> H, Vcand |-> <<>>, result |-> "ok"]
                 ELSE LET before == Loop[i - 1]
                          sp == splitgraph(O, O[i])
                          high == getstratrecurse(before.H, sp.A, subgraphs)
                          low == getstratrecurse(high.H, sp.B, subgraphs)
                      IN IF before.result # "ok" THEN before
                         ELSE IF high.result # "ok" THEN LoopRaised(high)
                         ELSE IF low.result # "ok" THEN LoopRaised(low)
                         ELSE AddCandidate(before, Len(O), O[i], high, low)
         IN ChooseRoot(Loop[Len(O)])

\* getstratnarrow(G): root = getstratrecurse(G, {}); root.updatecost()
getstratnarrow(H) == CallMethod(getstratrecurse(H, G.V, <<>>), "updatecost")

\* ------------------------------------------------- the heap operations
Ids(H) == 1..Len(H)

Call(op, result) == [op |-> op, result |-> result]

NoGraph == [V |-> <<>>, E |-> {}, penalty |-> <<>>]
NoStrats == [greedy |-> None, narrow |-> None, obj |-> 0]

\* the nodes of the tree rooted at the parentless node n
Reach(H, n) == {Iter(H, n)[i] : i \in 1..Len(Iter(H, n))}

Roots(H) == {n \in Ids(H) : H[n].parent = None}

Init ==
    /\ nodes = <<>>
    /\ last = Call("init", "ok")
    /\ tree_str = <<>>
    /\ G = NoGraph
    /\ strats = NoStrats

\* GusherNode(name, gusher_map, findable): a new object
NewNode(name, gusher_map, findable) ==
    /\ Len(nodes) < MaxNodes
    /\ nodes' = Append(nodes, GusherNode(name, gusher_map, findable))
    /\ last' = Call("GusherNode", "ok")
    /\ UNCHANGED <<tree_str, G, strats>>

\* self.add_children(high, low, dist_h, dist_l) returning normally
AddChildren(self, high, low, dist_h, dist_l) ==
    LET r == add_children(nodes, self, high, low, dist_h, dist_l)
    IN /\ r.ok
       /\ nodes' = r.H
       /\ last' = Call("add_children", "ok")
       /\ UNCHANGED <<tree_str, G, strats>>

\* self.add_children(high, low, dist_h, dist_l) raising AssertionError: the
\* heap keeps what the call wrote before the assert
AddChildrenFails(self, high, low, dist_h, dist_l) ==
    LET r == add_children(nodes, self, high, low, dist_h, dist_l)
    IN /\ ~r.ok
       /\ nodes' = r.H
       /\ last' = Call("add_children", "AssertionError")
       /\ UNCHANGED <<tree_str, G, strats>>

\* root.update_costs(gusher_map, start), called on the root of a tree
UpdateCosts(root, gusher_map, start) ==
    /\ nodes[root].parent = None
    /\ nodes' = update_costs(nodes, root, gusher_map, start)
    /\ last' = Call("update_costs", "ok")
    /\ UNCHANGED <<tree_str, G, strats>>

\* root.calc_tree_score(gusher_map, start)
CalcTreeScore(root, gusher_map, start) ==
    /\ nodes[root].parent = None
    /\ nodes' = calc_tree_score(nodes, root, gusher_map, start)
    /\ last' = Call("calc_tree_score", "ok")
    /\ UNCHANGED <<tree_str, G, strats>>

\* self.report(gusher_map): returning the text or raising StatisticsError
Report(self, gusher_map) ==
    /\ nodes[self].total_latency <= MaxTotalLatency
    /\ \E r \in {report(nodes, self, gusher_map)} :
           /\ nodes' = r.H
           /\ last' = Call("report", r.result)
    /\ UNCHANGED <<tree_str, G, strats>>

\* root.validate(): "ok" or the AssertionError it raises
Validate(root) ==
    /\ nodes[root].parent = None
    /\ last' = Call("validate", validate(nodes, root))
    /\ UNCHANGED <<nodes, tree_str, G, strats>>

Starts == {BASKET_LABEL, <<"a">>}

\* no tree has been written, read, copied or refreshed yet
Building == last.op \in {"init", "GusherNode", "add_children"}

\* add_children in a bottom-up assembly: called on a node that is not yet
\* attached itself, with subtrees that are not yet attached, in one call or
\* in several, with both sides, one side or none
AddChildrenBottomUp(self, high, low, dist_h, dist_l) ==
    /\ self \in Roots(nodes)
    /\ {high, low} \subseteq (Roots(nodes) \ {self}) \cup {None}
    /\ AddChildren(self, high, low, dist_h, dist_l)

\* Trees put together by calls that all return: nodes of any name and
\* findability, children attached in any order, then validated
Next ==
    \/ \E name \in Locations, findable \in BOOLEAN :
          NewNode(name, None, findable)
    \/ \E self \in Ids(nodes), high, low \in Ids(nodes) \cup {None} :
          AddChildren(self, high, low, 1, 1)
    \/ \E root \in Ids(nodes) : Validate(root)

Spec == Init /\ [][Next]_vars

\* Any sequence of add_children calls, the failing ones included
NextAttach ==
    \/ NewNode(<<"a">>, None, TRUE)
    \/ \E self \in Ids(nodes), high, low \in Ids(nodes) \cup {None} :
          AddChildren(self, high, low, 1, 1)
    \/ \E self \in Ids(nodes), high, low \in Ids(nodes) \cup {None} :
          AddChildrenFails(self, high, low, 1, 1)

SpecAttach == Init /\ [][NextAttach]_vars

\* Trees assembled bottom-up from weighted nodes with explicit distances,
\* refreshed without a gusher map, and reported with or without one
NextCost ==
    \/ Building /\ \E name \in Locations, findable \in BOOLEAN :
          NewNode(name, 1, findable)
    \/ Building /\ \E self \in Roots(nodes) :
          \E high, low \in (Roots(nodes) \ {self}) \cup {None},
             dist_h, dist_l \in Distances :
             AddChildrenBottomUp(self, high, low, dist_h, dist_l)
    \/ \E root \in Ids(nodes) :
          Roots(nodes) = {root} /\ UpdateCosts(root, None, BASKET_LABEL)
    \/ \E root \in Ids(nodes) :
          Roots(nodes) = {root} /\ CalcTreeScore(root, None, BASKET_LABEL)
    \/ \E self \in Ids(nodes), gusher_map \in GusherMaps :
          Report(self, gusher_map)

SpecCost == Init /\ [][NextCost]_vars

\* deepcopy(root), of the one tree the heap holds
DeepCopy(root) ==
    /\ Roots(nodes) = {root}
    /\ Len(nodes) <= MaxNodes
    /\ nodes' = deepcopy(nodes, root).H
    /\ last' = Call("deepcopy", "ok")
    /\ UNCHANGED <<tree_str, G, strats>>

\* Trees assembled bottom-up from weighted nodes with explicit distances,
\* copied, and refreshed with or without a gusher map
NextCopy ==
    \/ Building /\ \E name \in Locations, findable \in BOOLEAN :
          NewNode(name, 1, findable)
    \/ Building /\ \E self \in Roots(nodes) :
          \E high, low \in (Roots(nodes) \ {self}) \cup {None},
             dist_h, dist_l \in Distances :
             AddChildrenBottomUp(self, high, low, dist_h, dist_l)
    \/ \E root \in Ids(nodes) : DeepCopy(root)
    \/ \E root \in Ids(nodes), gusher_map \in GusherMaps :
          CalcTreeScore(root, gusher_map, BASKET_LABEL)

SpecCopy == Init /\ [][NextCopy]_vars

\* Trees built by hand, written with write_tree and read back; and texts of
\* any kind handed to read_tree
TreeNames == {<<"a">>, <<"b", "c">>}
TextChars == {"a", NEVER_FIND_FLAG, "(", ",", ")", " "}
Texts == UNION {[1..n -> TextChars] : n \in 0..MaxLen}


\* tree_str = write_tree(root), once the nodes built make one tree
WriteTree(root) ==
    /\ Building
    /\ Roots(nodes) = {root}
    /\ tree_str' = write_tree(nodes, root)
    /\ last' = Call("write_tree", "ok")
    /\ UNCHANGED <<nodes, G, strats>>

\* a text from elsewhere
InputText(s) ==
    /\ last.op = "init"
    /\ tree_str' = s
    /\ last' = Call("input", "ok")
    /\ UNCHANGED <<nodes, G, strats>>

\* read_tree(tree_str, gusher_map, start) returning a tree
ReadTree(gusher_map, start) ==
    LET r == read_tree(nodes, tree_str, gusher_map, start)
    IN /\ last.op \in {"write_tree", "input"}
       /\ r.ok
       /\ nodes' = r.H
       /\ last' = Call("read_tree", "ok")
       /\ UNCHANGED <<tree_str, G, strats>>

\* read_tree(tree_str, gusher_map, start) raising ParseException
ReadTreeFails(gusher_map, start) ==
    LET r == read_tree(nodes, tree_str, gusher_map, start)
    IN /\ last.op \in {"write_tree", "input"}
       /\ ~r.ok
       /\ nodes' = r.H
       /\ last' = Call("read_tree", "ParseException")
       /\ UNCHANGED <<tree_str, G, strats>>

NextText ==
    \/ Building /\ \E name \in TreeNames, findable \in BOOLEAN :
          NewNode(name, None, findable)
    \/ Building /\ \E self \in Roots(nodes) :
          \E high, low \in (Roots(nodes) \ {self}) \cup {None} :
             AddChildrenBottomUp(self, high, low, 1, 1)
    \/ \E root \in Ids(nodes) : WriteTree(root)
    \/ last.op = "init" /\ \E s \in Texts : InputText(s)
    \/ \E gm \in GusherMaps : ReadTree(gm, BASKET_LABEL)
    \/ \E gm \in GusherMaps : ReadTreeFails(gm, BASKET_LABEL)

SpecText == Init /\ [][NextText]_vars

\* The graphs load_graph can return: no vertex, or the first vertices in
\* the order the file names them, connected, with a penalty for each
VertexNames == <<<<"a">>, <<"b">>, <<"c">>, <<"d">>, <<"e">>>>
Penalties == {1, 2}

RECURSIVE Component(_, _)
Component(S, E) ==
    LET T == S \cup {v \in UNION E : \E u \in S : {u, v} \in E}
    IN IF T = S THEN S ELSE Component(T, E)

Connected(Vs, E) == Vs = {} \/ \E v \in Vs : Component({v}, E) = Vs

GraphsOn(k) ==
    LET Vs == {VertexNames[i] : i \in 1..k}
        Pairs == {{u, v} : u, v \in Vs} \ {{v} : v \in Vs}
    IN {[V |-> V, E |-> E, penalty |-> p] :
          V \in {V \in [1..k -> Vs] : \A i, j \in 1..k : V[i] = V[j] => i = j},
          E \in {E \in SUBSET Pairs : Connected(Vs, E)},
          p \in [Vs -> Penalties]}

Graphs == UNION {GraphsOn(k) : k \in 0..MaxVertices}

\* the tree a builder's call returned
Built(builder) ==
    IF builder = "getstratgreedy" THEN strats.greedy ELSE strats.narrow

\* G = load_graph(map_id)
LoadGraph(g) ==
    /\ G' = g
    /\ last' = Call("load_graph", "ok")
    /\ UNCHANGED <<nodes, tree_str, strats>>

\* greedystrat = getstratgreedy(G)
GetStratGreedy ==
    /\ last.op # "init"
    /\ \E r \in {getstratgreedy(nodes, G.V)} :
           /\ nodes' = r.H
           /\ strats' = IF r.result = "ok"
                        THEN [strats EXCEPT !.greedy = r.root]
                        ELSE strats
           /\ last' = Call("getstratgreedy", r.result)
    /\ UNCHANGED <<tree_str, G>>

\* optstrat = getstratnarrow(G)
GetStratNarrow ==
    /\ last.op # "init"
    /\ \E r \in {getstratnarrow(nodes)} :
           /\ nodes' = r.H
           /\ strats' = IF r.result = "ok"
                        THEN [strats EXCEPT !.narrow = r.root, !.obj = r.obj]
                        ELSE strats
           /\ last' = Call("getstratnarrow", r.result)
    /\ UNCHANGED <<tree_str, G>>

\* greedystrat.updatecost(), optstrat.updatecost(): the statement that follows
\* a builder's call when the call returned
UpdateCost ==
    /\ last.op \in {"getstratgreedy", "getstratnarrow"}
    /\ last.result = "ok"
    /\ \E r \in {CallMethod(Return(nodes, Built(last.op), 0), "updatecost")} :
           last' = Call("updatecost", r.result)
    /\ UNCHANGED <<nodes, tree_str, G, strats>>

NextStrat ==
    \/ last.op = "init" /\ \E g \in Graphs : LoadGraph(g)
    \/ GetStratGreedy
    \/ GetStratNarrow
    \/ UpdateCost

SpecStrat == Init /\ [][NextStrat]_vars

\* ------------------------------------------------------------------ C1
\* Every call the code accepts in the state: self, and a node or None a side
CallArgs(H) == Ids(H) \X (Ids(H) \cup {None}) \X (Ids(H) \cup {None})

\* C1: child attachment is single-assignment.  In every reachable heap, an
\* add_children call that passes a high (low) subtree to a node whose high
\* (low) slot is occupied, or a subtree that has a parent, raises; and no
\* call, failing or not, makes an occupied slot or a set parent refer to
\* another node.
C1_SingleAssignment ==
    \A c \in CallArgs(nodes) :
        LET self == c[1]
            high == c[2]
            low == c[3]
            r == add_children(nodes, self, high, low, 1, 1)
        IN /\ (high # None /\ (nodes[self].high # None \/ nodes[high].parent # None))
                 => ~r.ok
           /\ (low # None /\ (nodes[self].low # None \/ nodes[low].parent # None))
                 => ~r.ok
           /\ \A n \in Ids(nodes) :
                 /\ nodes[n].high # None => r.H[n].high = nodes[n].high
                 /\ nodes[n].low # None => r.H[n].low = nodes[n].low
                 /\ nodes[n].parent # None => r.H[n].parent = nodes[n].parent

\* X is the high child of P, and a call (such as Q.add_children(X, None)) has
\* just raised while Q is still without children
C1_Witness ==
    /\ last = Call("add_children", "AssertionError")
    /\ \E P, Q, X \in Ids(nodes) :
          /\ Cardinality({P, Q, X}) = 3
          /\ nodes[P].high = X /\ nodes[X].parent = P
          /\ nodes[Q].high = None /\ nodes[Q].low = None
          /\ ~add_children(nodes, Q, X, None, 1, 1).ok

\* ------------------------------------------------------------------ C2
CountFindable(H, r) == Cardinality({n \in Reach(H, r) : H[n].findable})

\* C2 (as claimed): whatever the order of the successful add_children calls,
\* the size of every root is the number of findable nodes of its tree.
C2_SizeIsFindableCount ==
    \A r \in Roots(nodes) : nodes[r].size = CountFindable(nodes, r)

\* ------------------------------------------------------------------ C8
\* the strict ancestors of n
RECURSIVE StrictAncestors(_, _)
StrictAncestors(H, n) ==
    IF H[n].parent = None THEN {}
    ELSE {H[n].parent} \cup StrictAncestors(H, H[n].parent)

Children(H, n) == {H[n].high, H[n].low} \ {None}

NameRepeatsOnPath(H, r) ==
    \E n \in Reach(H, r) : \E m \in StrictAncestors(H, n) : H[m].name = H[n].name

ParentMismatch(H, r) ==
    \E n \in Reach(H, r) : \E c \in Children(H, n) : H[c].parent # n

NonFindableLeaf(H, r) ==
    \E n \in Reach(H, r) : Children(H, n) = {} /\ ~H[n].findable

\* C8 (as claimed): validate accepts a tree iff no location name repeats on a
\* path, every child's parent is the node holding it, and every leaf is
\* findable.
C8_ValidateIffNoDefect ==
    \A r \in Roots(nodes) :
        (validate(nodes, r) = "ok")
            <=> ~(NameRepeatsOnPath(nodes, r) \/ ParentMismatch(nodes, r)
                    \/ NonFindableLeaf(nodes, r))

\* ------------------------------------------------------------------ C3
\* C3 (as claimed): update_costs called twice in a row with the same gusher
\* map and start leaves every node as the first call left it.
C3_UpdateCostsIdempotent ==
    \A r \in Roots(nodes), gm \in GusherMaps, start \in Starts :
        LET H1 == update_costs(nodes, r, gm, start)
        IN update_costs(H1, r, gm, start) = H1

\* ----------------------------------------------------------------- C10
\* the latency and the risk of n in the tree of r, by the top-down recurrence
RECURSIVE PathLatency(_, _, _)
PathLatency(H, n, r) ==
    IF n = r THEN 0 ELSE PathLatency(H, H[n].parent, r) + H[n].distance

RECURSIVE SumWeight(_, _)
SumWeight(H, S) ==
    IF S = {} THEN 0
    ELSE LET m == CHOOSE m \in S : TRUE IN H[m].weight + SumWeight(H, S \ {m})

RECURSIVE PathRisk(_, _, _)
PathRisk(H, n, r) ==
    IF n = r THEN 0
    ELSE PathRisk(H, H[n].parent, r)
           + SumWeight(H, StrictAncestors(H, n)) * H[n].distance

RECURSIVE SumPathLatency(_, _, _)
SumPathLatency(H, S, r) ==
    IF S = {} THEN 0
    ELSE LET m == CHOOSE m \in S : TRUE
         IN PathLatency(H, m, r) + SumPathLatency(H, S \ {m}, r)

RECURSIVE SumPathRisk(_, _, _)
SumPathRisk(H, S, r) ==
    IF S = {} THEN 0
    ELSE LET m == CHOOSE m \in S : TRUE
         IN PathRisk(H, m, r) + SumPathRisk(H, S \ {m}, r)

FindableIn(H, r) == {n \in Reach(H, r) : H[n].findable}

RECURSIVE SameNamesAndShape(_, _, _)
SameNamesAndShape(H, a, b) ==
    IF a = None \/ b = None THEN a = b
    ELSE /\ H[a].name = H[b].name
         /\ H[a].findable = H[b].findable
         /\ SameNamesAndShape(H, H[a].high, H[b].high)
         /\ SameNamesAndShape(H, H[a].low, H[b].low)

\* C4: round trip.  read_tree(write_tree(T)) returns, for every tree T built
\* from word-character names, a new tree of the same shape with the same name
\* and findability at every node (high for high, low for low), which
\* is_same_tree accepts when both trees take their weights from the same map.
C4_RoundTrip ==
    \A r \in Roots(nodes) : \A gm \in GusherMaps :
        LET rd == read_tree(nodes, write_tree(nodes, r), gm, BASKET_LABEL)
        IN /\ rd.ok
           /\ rd.root \notin Ids(nodes)
           /\ SameNamesAndShape(rd.H, r, rd.root)
           /\ (\A n \in Reach(nodes, r) : nodes[n].weight = weight(gm, nodes[n].name)
                                          \/ (gm = None /\ nodes[n].weight = 1))
                 => is_same_tree(rd.H, r, rd.root)

\* read_tree has returned the copy of a written tree that has both children,
\* one of them not findable, and a name of two characters
C4_Witness ==
    /\ last = Call("read_tree", "ok")
    /\ Len(nodes) = 6
    /\ tree_str = write_tree(nodes, 3)
    /\ nodes[3].high # None /\ nodes[3].low # None
    /\ \E n \in {1, 2} : ~nodes[n].findable
    /\ \E n \in 1..3 : nodes[n].name = <<"b", "c">>
    /\ SameNamesAndShape(nodes, 3, 4)

\* ------------------------------------------------------------------ C9
\* a text without its white space
RECURSIVE Strip(_)
Strip(s) ==
    IF s = <<>> THEN <<>>
    ELSE (IF Head(s) \in White THEN <<>> ELSE <<Head(s)>>) \o Strip(Tail(s))

IsName(s) ==
    /\ s # <<>>
    /\ LET w == IF s[Len(s)] = NEVER_FIND_FLAG THEN SubSeq(s, 1, Len(s) - 1) ELSE s
       IN w # <<>> /\ \A i \in 1..Len(w) : w[i] \in WordChars

\* tree := name [ "(" [tree] "," [tree] ")" ]
RECURSIVE Derivable(_)
Derivable(s) ==
    \/ IsName(s)
    \/ \E i \in 1..(Len(s) - 1) :
          /\ IsName(SubSeq(s, 1, i))
          /\ s[i + 1] = "(" /\ s[Len(s)] = ")"
          /\ \E k \in (i + 2)..(Len(s) - 1) :
                /\ s[k] = ","
                /\ LET h == SubSeq(s, i + 2, k - 1)
                       l == SubSeq(s, k + 1, Len(s) - 1)
                   IN (h = <<>> \/ Derivable(h)) /\ (l = <<>> \/ Derivable(l))

\* C9 (as claimed): read_tree returns a tree only for a text that as a whole
\* is derivable from the grammar (white space between the tokens aside).
C9_RejectsNonGrammarText ==
    last = Call("read_tree", "ok") => Derivable(Strip(tree_str))

\* ------------------------------------------------------------------ C5
VertexSet == {G.V[i] : i \in 1..Len(G.V)}

\* each vertex of the graph is the name of exactly one node of the tree
NamesAreVertices(H, r) ==
    /\ {H[n].name : n \in Reach(H, r)} = VertexSet
    /\ Len(Iter(H, r)) = Len(G.V)
    /\ \A i, j \in 1..Len(Iter(H, r)) :
           H[Iter(H, r)[i]].name = H[Iter(H, r)[j]].name => i = j

\* C5 (as claimed): on every connected graph, getstratgreedy and
\* getstratnarrow return a tree that passes validate, has no name repeated
\* on a path, no child whose parent is not the node holding it and no
\* non-findable leaf, and whose node names are exactly the graph's vertices,
\* each once.
C5_BuiltTreesAreValid ==
    \A builder \in {"getstratgreedy", "getstratnarrow"} :
        (last.op = builder /\ G.V # <<>>) =>
            /\ last.result = "ok"
            /\ Built(builder) # None
            /\ validate(nodes, Built(builder)) = "ok"
            /\ ~NameRepeatsOnPath(nodes, Built(builder))
            /\ ~ParentMismatch(nodes, Built(builder))
            /\ ~NonFindableLeaf(nodes, Built(builder))
            /\ NamesAreVertices(nodes, Built(builder))

\* ------------------------------------------------------------------ C6
\* the formula applied to a tree as built: n is the number of nodes of the
\* subtree, 0 for a leaf and for an absent subtree
RECURSIVE TreeObjective(_, _)
TreeObjective(H, r) ==
    IF r = None THEN 0
    ELSE (Len(Iter(H, r)) - 1) * G.penalty[H[r].name]
         + TreeObjective(H, H[r].high) + TreeObjective(H, H[r].low)

SetMin(S) == CHOOSE x \in S : \A y \in S : x <= y

\* the minimum over pivots, computed without the dict of solved subgraphs
RECURSIVE Optimum(_)
Optimum(O) ==
    IF Len(O) <= 1 THEN 0
    ELSE SetMin({(Len(O) - 1) * G.penalty[O[i]]
                   + Optimum(SelectSeq(O, LAMBDA v : Adjacent(O[i], v)))
                   + Optimum(SelectSeq(O, LAMBDA v : v # O[i] /\ ~Adjacent(O[i], v)))
                 : i \in 1..Len(O)})

\* C6 (as claimed): getstratnarrow records on the root it returns the
\* minimum over pivots of (n-1)*penalty(V) + objH + objL, which is at most
\* the objective of getstratgreedy's tree on the same graph.
C6_NarrowDominatesGreedy ==
    (last.op = "getstratnarrow" /\ G.V # <<>>) =>
        /\ last.result = "ok"
        /\ strats.narrow # None
        /\ strats.obj = Optimum(G.V)
        /\ strats.greedy # None => strats.obj <= TreeObjective(nodes, strats.greedy)

\* ------------------------------------------------------------------ C7
\* two adjacent locations a and b with penalties 2 and 1
ScenarioTwo ==
    [V |-> <<<<"a">>, <<"b">>>>, E |-> {{<<"a">>, <<"b">>}},
     penalty |-> (<<"a">> :> 2) @@ (<<"b">> :> 1)]

\* C7 (as claimed): on the graph of two adjacent locations a and b with
\* penalties 2 and 1, getstratnarrow picks a as the root, records the
\* objective 2 and returns the tree a(,b) or a(b,).
C7_PicksHigherPenalty ==
    (G = ScenarioTwo /\ last.op = "getstratnarrow") =>
        /\ last.result = "ok"
        /\ strats.narrow # None
        /\ nodes[strats.narrow].name = <<"a">>
        /\ strats.obj = 2
        /\ write_tree(nodes, strats.narrow) \in
               {<<"a", "(", ",", "b", ")">>, <<"a", "(", "b", ",", ")">>}

\* ----------------------------------------------------------------- C11
\* the i-th node of the copy, in the order of __iter__, has the weight,
\* distance, latency and risk of the i-th node of the tree
SameCosts(H, t, c) ==
    /\ Len(Iter(H, t)) = Len(Iter(H, c))
    /\ \A i \in 1..Len(Iter(H, t)) :
           /\ H[Iter(H, t)[i]].weight = H[Iter(H, c)[i]].weight
           /\ H[Iter(H, t)[i]].distance = H[Iter(H, c)[i]].distance
           /\ H[Iter(H, t)[i]].latency = H[Iter(H, c)[i]].latency
           /\ H[Iter(H, t)[i]].risk = H[Iter(H, c)[i]].risk

\* the tree t and its copy c after calc_tree_score has run on both
RefreshBoth(c, t, gusher_map, start) ==
    calc_tree_score(calc_tree_score(c.H, t, gusher_map, start),
                    c.root, gusher_map, start)

CopyAgrees(H, t, c) ==
    /\ SameCosts(H, t, c)
    /\ H[t].total_latency = H[c].total_latency
    /\ H[t].total_risk = H[c].total_risk

\* C11 (as claimed): the copy __deepcopy__ makes of a tree shares no node
\* with it, and once the same cost refresh (same gusher map or none, same
\* start) has run on both, every node of the copy has the weight, distance,
\* latency and risk of its counterpart and the roots have the same
\* total_latency and total_risk.
C11_DeepCopyLosesNoAccuracy ==
    \A t \in Roots(nodes) : \A gusher_map \in GusherMaps : \A start \in Starts :
        /\ \E c \in {deepcopy(nodes, t)} :
               /\ Reach(c.H, c.root) \cap Ids(nodes) = {}
               /\ Reach(c.H, t) = Reach(nodes, t)
        /\ CopyAgrees(RefreshBoth(deepcopy(nodes, t), t, gusher_map, start),
                      t, Len(nodes) + 1)

\* ----------------------------------------------------------------- C12
\* the fields of self and of the argument subtrees the call may write
SameAsBefore(H, self, high, low) ==
    /\ H[self].high = nodes[self].high
    /\ H[self].low = nodes[self].low
    /\ H[self].size = nodes[self].size
    /\ H[self].total_latency = nodes[self].total_latency
    /\ H[self].total_risk = nodes[self].total_risk
    /\ \A child \in {high, low} \ {None} :
           /\ H[child].parent = nodes[child].parent
           /\ H[child].distance = nodes[child].distance

\* C12 (as claimed): an add_children call that raises, for either side,
\* leaves self's high, low, size, total_latency and total_risk and the
\* parent and distance of both argument subtrees as they were, also when
\* the high side is acceptable and only the low side is refused.
C12_FailedCallHasNoEffect ==
    \A c \in CallArgs(nodes) :
        ~add_children(nodes, c[1], c[2], c[3], 1, 1).ok
            => SameAsBefore(add_children(nodes, c[1], c[2], c[3], 1, 1).H,
                            c[1], c[2], c[3])

=============================================================================
